---- MODULE Spec2Model ----
(***************************************************************************)
(* State-machine model of the Drive admin console:                         *)
(*   - AuthGuard (server component gating the protected pages),            *)
(*   - DriveTable (client component: list, filter, rename, delete with     *)
(*     confirmation, copy URL) talking to the Remote File Service,         *)
(*   - the GET, PUT and DELETE handlers of the management/[id] route.      *)
(* Every await in the source is a point where the handler is suspended: a  *)
(* request sits in `net` until the service answers it (Serve) and the      *)
(* answer is delivered to the handler's continuation (the *Settled         *)
(* actions).  Everything between two awaits is one atomic action.          *)
(***************************************************************************)
EXTENDS Integers, Sequences, FiniteSets, TLC

\* ---------------------------------------------------------------- bounds
MaxOps == 2               \* user interactions one run may make

\* ------------------------------------------------------- program constants
CopyWindowMs == 2000      \* setTimeout(() => setCopiedFileId(null), 2000)
TickMs == CopyWindowMs \div 2   \* granularity of the modelled clock
Lefts == {k * TickMs : k \in 0..(CopyWindowMs \div TickMs)}

\* ------------------------------------------------------------- the values
Null == "null"            \* null / undefined of a string-typed slot
Falsy(s) == s = Null \/ s = ""

FileIds == {"f1", "f2"}
FolderMime == "application/vnd.google-apps.folder"
PdfMime == "application/pdf"
PngMime == "image/png"
CapitalMime == "text/x-Folder"
FoldersMime == "application/x-folders"
MimeTypeOf(id) == IF id = "f2" THEN FolderMime ELSE PdfMime

\* sub occurs in s at position i
StartsWith(s, i, sub) ==
  /\ i + Len(sub) - 1 <= Len(s)
  /\ SubSeq(s, i, i + Len(sub) - 1) = sub

\* String.prototype.includes
Includes(s, sub) == \E i \in 1..Len(s) : StartsWith(s, i, sub)

\* the characters of a mimeType
Chars(mime) ==
  CASE mime = FolderMime ->
         <<"a", "p", "p", "l", "i", "c", "a", "t", "i", "o", "n", "/", "v",
           "n", "d", ".", "g", "o", "o", "g", "l", "e", "-", "a", "p", "p",
           "s", ".", "f", "o", "l", "d", "e", "r">>
    [] mime = PdfMime ->
         <<"a", "p", "p", "l", "i", "c", "a", "t", "i", "o", "n", "/", "p",
           "d", "f">>
    [] mime = PngMime ->
         <<"i", "m", "a", "g", "e", "/", "p", "n", "g">>
    [] mime = CapitalMime ->
         <<"t", "e", "x", "t", "/", "x", "-", "F", "o", "l", "d", "e", "r">>
    [] mime = FoldersMime ->
         <<"a", "p", "p", "l", "i", "c", "a", "t", "i", "o", "n", "/", "x",
           "-", "f", "o", "l", "d", "e", "r", "s">>

\* file.mimeType?.includes("folder"): undefined, so falsy, without a mimeType
IncludesFolder(mime) ==
  mime # Null /\ Includes(Chars(mime), <<"f", "o", "l", "d", "e", "r">>)

\* strings the code inspects character by character are sequences of chars
PromptNull == <<"<null>">>             \* prompt() cancelled
ThisFile == <<"t", "h", "i", "s", " ", "f", "i", "l", "e">>
InitialName == <<"a">>
PromptInputs == {PromptNull, <<>>, <<" ">>, <<" ", " ">>, <<" ", "b">>}

RECURSIVE TrimStart(_)
TrimStart(s) ==
  IF s = <<>> THEN s
  ELSE IF Head(s) = " " THEN TrimStart(Tail(s)) ELSE s

RECURSIVE TrimEnd(_)
TrimEnd(s) ==
  IF s = <<>> THEN s
  ELSE IF s[Len(s)] = " " THEN TrimEnd(SubSeq(s, 1, Len(s) - 1)) ELSE s

\* String.prototype.trim
Trim(s) == TrimEnd(TrimStart(s))

\* the check without trim(): !newName
BlankName_NoTrim(newName) == newName = PromptNull \/ newName = <<>>

\* !newName?.trim()
BlankName(newName) == newName = PromptNull \/ Trim(newName) = <<>>

File(id, name) == [id |-> id, name |-> name, mimeType |-> MimeTypeOf(id)]
InitialRemote == {File(id, InitialName) : id \in FileIds}
UrlOf(id) == IF id = "f1" THEN "https://drive/f1" ELSE "https://drive/f2"

\* ------------------------------------------------------------- responses
\* thrown: "none" (the promise resolved), "error" (rejected with an Error),
\* "nonError" (rejected with something that is not an Error)
Res(thrown, success, message, url, data) ==
  [thrown |-> thrown, success |-> success, message |-> message,
   url |-> url, data |-> data]
NoRes == Res("none", FALSE, Null, Null, {})

\* err instanceof Error ? err.message : fallback
ErrMessage(res, fallback) ==
  IF res.thrown = "error" THEN res.message ELSE fallback

\* ------------------------------------------------------------- requests
\* id: the handler invocation the request belongs to; parent: the handler
\* awaiting it ("none": fetchFiles / fetchFolders called on their own);
\* callRes: what the parent's callApi resolved with; fetches: how many
\* fetchFiles calls the parent has made
Req(id, kind, fileId, fileName, url, parent, callRes, fetches) ==
  [id |-> id, kind |-> kind, fileId |-> fileId, fileName |-> fileName,
   url |-> url, parent |-> parent, callRes |-> callRes,
   fetches |-> fetches, status |-> "sent", res |-> NoRes]

\* ------------------------------------------- management/[id] route: values
\* undefined / null of a slot that otherwise holds a string the code looks
\* into
Undefined == <<"<undefined>">>
\* !x for such a slot
Absent(x) == x = Undefined \/ x = <<>>

\* Strings the route inspects are sequences of tokens: "/" and the other
\* separators are tokens of their own, and so is every run of characters of
\* [a-zA-Z0-9_-] written below.
IdTokens == {"file", "d", "view", "uc", "id", "A", "B", "1", "-", "_"}
DrivePath == <<"drive.google.com", "/", "file", "/", "d", "/">>
FileDPath == <<"/", "file", "/", "d", "/">>

\* ([a-zA-Z0-9_-]+) tried at position i: the longest run, <<>> if none
RECURSIVE IdRun(_, _)
IdRun(s, i) ==
  IF i > Len(s) \/ s[i] \notin IdTokens THEN <<>>
  ELSE <<s[i]>> \o IdRun(s, i + 1)

\* photo.match(/\/file\/d\/([a-zA-Z0-9_-]+)/): group 1 of the leftmost
\* match, Undefined when there is none
fileIdMatch(photo) ==
  LET starts == {i \in 1..Len(photo) :
                   /\ StartsWith(photo, i, FileDPath)
                   /\ IdRun(photo, i + Len(FileDPath)) # <<>>}
      first == CHOOSE i \in starts : \A j \in starts : i <= j
  IN IF starts = {} THEN Undefined
     ELSE IdRun(photo, first + Len(FileDPath))

\* management.photo && management.photo.includes("drive.google.com/file/d/")
IsDrivePhoto(photo) == ~Absent(photo) /\ Includes(photo, DrivePath)

\* request.headers.get("authorization")?.replace("Bearer ", ""): the first
\* occurrence is removed
RECURSIVE ReplaceBearer(_)
ReplaceBearer(h) ==
  IF h = Undefined \/ h = <<>> THEN h
  ELSE IF Head(h) = "Bearer " THEN Tail(h)
  ELSE <<Head(h)>> \o ReplaceBearer(Tail(h))

\* the photo of the record and the authorization header of the request
DriveIds == {<<"A", "-", "1">>, <<"B", "_">>}
DriveUrl(id) ==
  <<"https://", "drive.google.com", "/", "file", "/", "d", "/">>
    \o id \o <<"/", "view">>
Photos ==
  {DriveUrl(id) : id \in DriveIds}
    \cup {Undefined, <<>>,
          <<"https://", "example.com", "/", "file", "/", "d", "/", "A">>,
          <<"https://", "drive.google.com", "/", "uc", "?", "id", "=", "A">>,
          <<"https://", "drive.google.com", "/", "file", "/", "d", "/", "/",
            "view">>}
Authorizations ==
  {Undefined, <<>>, <<"Bearer ">>, <<"Bearer ", "t", "k">>, <<"t", "k">>}

Management(photo) == [id |-> "m1", photo |-> photo]

\* a call the handler awaits, and what it settled with
Call(fn, fileId, token) ==
  [fn |-> fn, fileId |-> fileId, accessToken |-> token, settled |-> FALSE,
   res |-> NoRes]

NoResponse ==
  [status |-> 0, success |-> FALSE, message |-> Null, data |-> <<>>]
RouteIdle ==
  [pc |-> "idle", method |-> Null, photo |-> Undefined,
   authorization |-> Undefined, calls |-> <<>>, warned |-> FALSE,
   response |-> NoResponse]

VARIABLES
  accessToken,      \* AuthGuardProps.accessToken / DriveTableProps.accessToken
  authView,         \* what AuthGuard rendered
  validationCalls,  \* number of getGoogleDriveFiles calls made by AuthGuard
  validation,       \* how AuthGuard's getGoogleDriveFiles call went
  mounted,          \* DriveTable's mount effect has run
  files, folders, filter, isLoading, error, deleteModal, copiedFileId,
  timers,           \* pending setTimeout callbacks: time left -> how many
  clipboard,        \* navigator.clipboard content
  remote,           \* the Remote File Service's files
  net,              \* requests in flight
  ops,              \* number of user interactions so far
  copiedAge,        \* history: ms since copiedFileId was last set
  blankRename,      \* history: handleRename was called without a fileId or
                    \* with a null, empty or all-blank name
  route             \* the request a management/[id] handler is serving

guardVars == <<accessToken, authView, validationCalls, validation>>
viewVars == <<files, folders, filter, isLoading, error, deleteModal,
              copiedFileId, timers, clipboard, copiedAge>>
vars == <<accessToken, authView, validationCalls, validation, mounted, files, folders,
          filter, isLoading, error, deleteModal, copiedFileId, timers,
          clipboard, remote, net, ops, copiedAge, blankRename, route>>
consoleVars == <<guardVars, mounted, viewVars, remote, net, ops, blankRename>>

ClosedModal == [isOpen |-> FALSE, fileId |-> Null, fileName |-> <<>>]

InitConsole ==
  /\ accessToken \in {Null, "", "tok"}
  /\ authView = "pending"
  /\ validationCalls = 0
  /\ validation = "none"
  /\ mounted = FALSE
  /\ files = InitialRemote
  /\ folders = {}
  /\ filter = "all"
  /\ isLoading = [files |-> FALSE, folders |-> FALSE, operations |-> FALSE]
  /\ error = Null
  /\ deleteModal = ClosedModal
  /\ copiedFileId = Null
  /\ timers = [l \in Lefts |-> 0]
  /\ clipboard = Null
  /\ remote = InitialRemote
  /\ net = {}
  /\ ops = 0
  /\ copiedAge = 0
  /\ blankRename = FALSE

\* the console, no request to the management route being served
Init == InitConsole /\ route = RouteIdle

\* ------------------------------------------------------------ AuthGuard
\* the check as accessToken == null: an empty token passes
AuthGuardNoToken_NullOnly(token) == token = Null

\* if (!accessToken) return <connect prompt>
AuthGuardNoToken(token) == Falsy(token)

AuthGuard ==
  /\ authView = "pending"
  /\ IF AuthGuardNoToken(accessToken)
       THEN /\ authView' = "connect"
            /\ validationCalls' = validationCalls
            /\ validation' = validation
       ELSE /\ authView' = "verifying"
            /\ validationCalls' = validationCalls + 1
            /\ validation' = "sent"
  /\ UNCHANGED <<accessToken, mounted, viewVars, remote, net, ops,
                 blankRename, route>>

\* the catch block logging the error and falling through to the children
AuthGuardView_SwallowsError(ok) == "children"

\* try { await ... } catch { return <error view> }  return <>{children}</>
AuthGuardView(ok) == IF ok THEN "children" ELSE "error"

\* await getGoogleDriveFiles(accessToken) returned / threw
AuthGuardValidated(ok) ==
  /\ authView = "verifying"
  /\ validation' = IF ok THEN "ok" ELSE "threw"
  /\ authView' = AuthGuardView(ok)
  /\ UNCHANGED <<accessToken, validationCalls, mounted, viewVars, remote,
                 net, ops, blankRename, route>>

\* ------------------------------------------------------ Remote File Service
\* What a request of each kind can come back with.  fetchDriveFiles,
\* fetchDriveFolders and callApi live in @/lib/api/google-drive; they are
\* modelled from the response envelope {success, message?, url?, data?}.
Exists(id) == \E f \in remote : f.id = id

\* a rejection carries an Error; getUrl is also tried with a rejection that
\* is not an Error, the case every catch block's fallback message is for
Thrown == {Res("error", FALSE, "Network error", Null, {})}
ThrownAny == Thrown \cup {Res("nonError", FALSE, Null, Null, {})}

fetchDriveFiles == {Res("none", TRUE, Null, Null, remote)} \cup Thrown

fetchDriveFolders ==
  {Res("none", TRUE, Null, Null,
       {f \in remote : IncludesFolder(f.mimeType)})} \cup Thrown

callApi(r) ==
  CASE r.kind \in {"rename", "delete"} ->
         (IF Exists(r.fileId) THEN {Res("none", TRUE, Null, Null, {})}
          ELSE {})
         \cup {Res("none", FALSE, "Drive API error", Null, {})}
         \cup Thrown
    [] r.kind = "getUrl" ->
         (IF Exists(r.fileId)
            THEN {Res("none", TRUE, Null, UrlOf(r.fileId), {})}
            ELSE {})
         \cup {Res("none", TRUE, Null, Null, {}),
               Res("none", FALSE, "Drive API error", Null, {}),
               Res("none", FALSE, Null, Null, {})}
         \cup ThrownAny

\* navigator.clipboard.writeText(url): resolves, or rejects (no permission)
clipboardWriteText ==
  {Res("none", TRUE, Null, Null, {}),
   Res("error", FALSE, "Write permission denied", Null, {})}

Outcomes(r) ==
  CASE r.kind = "files" -> fetchDriveFiles
    [] r.kind = "folders" -> fetchDriveFolders
    [] r.kind = "clipboardWrite" -> clipboardWriteText
    [] OTHER -> callApi(r)

Succeeded(res) == res.thrown = "none" /\ res.success

RemoteAfter(r, res) ==
  IF ~Succeeded(res) THEN remote
  ELSE CASE r.kind = "rename" ->
              {IF f.id = r.fileId THEN [f EXCEPT !.name = r.fileName] ELSE f
                 : f \in remote}
         [] r.kind = "delete" -> {f \in remote : f.id # r.fileId}
         [] OTHER -> remote

\* the service (or the browser, for the clipboard) answers a request
Serve(r, res) ==
  /\ r \in net /\ r.status = "sent"
  /\ res \in Outcomes(r)
  /\ net' = (net \ {r}) \cup {[r EXCEPT !.status = "answered", !.res = res]}
  /\ remote' = RemoteAfter(r, res)
  /\ clipboard' = IF r.kind = "clipboardWrite" /\ Succeeded(res)
                    THEN r.url ELSE clipboard
  /\ UNCHANGED <<route, guardVars, blankRename, mounted, files, folders, filter, isLoading,
                 error, deleteModal, copiedFileId, timers, ops, copiedAge>>

\* ------------------------------------------------------------ DriveTable
\* the update spreading the isLoading captured by the first render instead
\* of prev: setIsLoading({ ...isLoading, [key]: value })
setLoadingState_Stale(prev, key, value) ==
  [[files |-> FALSE, folders |-> FALSE, operations |-> FALSE]
     EXCEPT ![key] = value]

\* setIsLoading((prev) => ({ ...prev, [key]: value }))
setLoadingState(prev, key, value) == [prev EXCEPT ![key] = value]

\* the lowest invocation id no request in flight is using
FreeId(used) ==
  CHOOSE i \in 1..(Cardinality(used) + 1) :
    i \notin used /\ \A j \in 1..(i - 1) : j \in used
NewId == FreeId({r.id : r \in net})

FilesReq(id, parent, callRes, fetches) ==
  Req(id, "files", Null, <<>>, Null, parent, callRes, fetches)

\* useEffect(() => { fetchFiles(); fetchFolders(); }, ...): both handlers
\* run up to their first await
Mount ==
  /\ authView = "children" /\ ~mounted
  /\ mounted' = TRUE
  /\ isLoading' = setLoadingState(setLoadingState(isLoading, "files", TRUE),
                                  "folders", TRUE)
  /\ error' = Null
  /\ net' = net \cup {FilesReq(NewId, "none", NoRes, 0),
                      Req(NewId + 1, "folders", Null, <<>>, Null, "none",
                          NoRes, 0)}
  /\ UNCHANGED <<route, guardVars, blankRename, files, folders, filter, deleteModal,
                 copiedFileId, timers, clipboard, remote, ops, copiedAge>>

\* the Refresh button: onClick={fetchFiles} disabled={isLoading.files}
fetchFiles ==
  /\ mounted /\ ~isLoading.files
  /\ ops < MaxOps
  /\ ops' = ops + 1
  /\ isLoading' = setLoadingState(isLoading, "files", TRUE)
  /\ error' = Null
  /\ net' = net \cup {FilesReq(NewId, "none", NoRes, 0)}
  /\ UNCHANGED <<route, guardVars, blankRename, mounted, files, folders, filter, deleteModal,
                 copiedFileId, timers, clipboard, remote, copiedAge>>

\* the modal hidden but its target kept:
\* setDeleteModal((prev) => ({ ...prev, isOpen: false }))
confirmDeleteDone_KeepsTarget(modal) == [modal EXCEPT !.isOpen = FALSE]

\* setDeleteModal({ isOpen: false, fileId: null, fileName: "" }) after the
\* awaited handleApiOperation in confirmDelete
confirmDeleteDone(modal) == ClosedModal

\* what handleApiOperation's caller does once it returns
ModalAfter(parent, modal) ==
  IF parent = "delete" THEN confirmDeleteDone(modal) ELSE modal

\* fetchFiles after its await: try / catch / finally, and, when it was
\* awaited by handleApiOperation, the rest of that handler and its caller
FetchFilesSettled(r) ==
  /\ r \in net /\ r.kind = "files" /\ r.status = "answered"
  /\ files' = IF r.res.thrown = "none" THEN r.res.data ELSE files
  /\ error' = IF r.res.thrown = "none" THEN error
              ELSE ErrMessage(r.res, "Failed to load files. Please try again.")
  /\ isLoading' =
       IF r.parent = "none"
         THEN setLoadingState(isLoading, "files", FALSE)
         ELSE setLoadingState(setLoadingState(isLoading, "files", FALSE),
                              "operations", FALSE)
  /\ deleteModal' = ModalAfter(r.parent, deleteModal)
  /\ net' = net \ {r}
  /\ UNCHANGED <<route, guardVars, blankRename, mounted, folders, filter, copiedFileId, timers,
                 clipboard, remote, ops, copiedAge>>

\* fetchFolders after its await
FetchFoldersSettled(r) ==
  /\ r \in net /\ r.kind = "folders" /\ r.status = "answered"
  /\ folders' = IF r.res.thrown = "none" THEN r.res.data ELSE folders
  /\ error' = IF r.res.thrown = "none" THEN error
              ELSE ErrMessage(r.res,
                              "Failed to load folders. Please try again.")
  /\ isLoading' = setLoadingState(isLoading, "folders", FALSE)
  /\ net' = net \ {r}
  /\ UNCHANGED <<route, guardVars, blankRename, mounted, files, filter, deleteModal,
                 copiedFileId, timers, clipboard, remote, ops, copiedAge>>

\* the callback asking for a mimeType before it looks into it:
\* file.mimeType && !file.mimeType.includes("folder")
FilterKeeps_RequiresMime(file, f) ==
  IF f = "all" THEN TRUE
  ELSE IF f = "folders" THEN IncludesFolder(file.mimeType)
  ELSE file.mimeType # Null /\ ~IncludesFolder(file.mimeType)

\* the callback of files.filter(...) under filter f
FilterKeeps(file, f) ==
  IF f = "all" THEN TRUE
  ELSE IF f = "folders" THEN IncludesFolder(file.mimeType)
  ELSE ~IncludesFolder(file.mimeType)

\* files.filter(...) under the selected filter
filteredFiles == {file \in files : FilterKeeps(file, filter)}

\* a row's buttons exist when the table is rendered (not the spinner) and
\* are enabled when disabled={isLoading.operations} is false; a row whose
\* entry carries no id hands Null to the handler
RowArgs == {<<file.id, file.name>> : file \in filteredFiles}
             \cup {<<Null, InitialName>>}
RowsEnabled == mounted /\ ~isLoading.files /\ ~isLoading.operations

\* handleApiOperation up to `await operation()`, the operation being one
\* callApi of the given action
handleApiOperation(action, fileId, fileName) ==
  /\ ops < MaxOps
  /\ ops' = ops + 1
  /\ isLoading' = setLoadingState(isLoading, "operations", TRUE)
  /\ error' = Null
  /\ net' = net \cup {Req(NewId, action, fileId, fileName, Null, action,
                          NoRes, 0)}

\* handleApiOperation without `await fetchFiles()`
OperationSettled_NoRefetch(r) ==
  /\ r \in net /\ r.kind \in {"rename", "delete"} /\ r.status = "answered"
  /\ isLoading' = setLoadingState(isLoading, "operations", FALSE)
  /\ error' = IF r.res.thrown = "none" THEN error
              ELSE ErrMessage(r.res, "Operation failed. Please try again.")
  /\ net' = net \ {r}
  /\ deleteModal' = ModalAfter(r.kind, deleteModal)
  /\ UNCHANGED <<route, guardVars, blankRename, mounted, files, folders, filter,
                 copiedFileId, timers, clipboard, remote, ops, copiedAge>>

\* handleApiOperation after `await operation()`: the envelope callApi
\* resolved with is dropped and fetchFiles is awaited; a rejection goes to
\* catch / finally and back to the caller
OperationSettled(r) ==
  /\ r \in net /\ r.kind \in {"rename", "delete"} /\ r.status = "answered"
  /\ IF r.res.thrown = "none"
       THEN /\ isLoading' = setLoadingState(isLoading, "files", TRUE)
            /\ error' = Null
            /\ net' = (net \ {r})
                        \cup {FilesReq(r.id, r.kind, r.res, r.fetches + 1)}
            /\ deleteModal' = deleteModal
       ELSE /\ isLoading' = setLoadingState(isLoading, "operations", FALSE)
            /\ error' = ErrMessage(r.res,
                                   "Operation failed. Please try again.")
            /\ net' = net \ {r}
            /\ deleteModal' = ModalAfter(r.kind, deleteModal)
  /\ UNCHANGED <<route, guardVars, blankRename, mounted, files, folders, filter, copiedFileId,
                 timers, clipboard, remote, ops, copiedAge>>

\* the inputs the rename contract rejects, spelled out character by
\* character
AbsentOrBlank(fileId, newName) ==
  \/ fileId \in {Null, ""}
  \/ newName = PromptNull
  \/ \A i \in 1..Len(newName) : newName[i] = " "

\* handleRename's inputs: the id of a row, or none; prompt() is not reached
\* without a fileId
RenameArgs ==
  ({Null, ""} \X {PromptNull})
    \cup ({file.id : file \in filteredFiles} \X PromptInputs)

\* if (!fileId) return; ... if (!newName?.trim()) return;
RenameRejected(fileId, newName) == Falsy(fileId) \/ BlankName(newName)

\* handleRename(fileId), newName being what prompt() returned.  No element
\* of the rendered tree refers to handleRename; it is offered the way the
\* other two row handlers are.
handleRename(fileId, newName) ==
  /\ RowsEnabled
  /\ IF RenameRejected(fileId, newName)
       THEN UNCHANGED <<isLoading, error, net, ops>>
       ELSE handleApiOperation("rename", fileId, newName)
  /\ blankRename' = (blankRename \/ AbsentOrBlank(fileId, newName))
  /\ UNCHANGED <<route, guardVars, mounted, files, folders, filter, deleteModal,
                 copiedFileId, timers, clipboard, remote, copiedAge>>

\* fileName || "this file"
NameOrDefault(fileName) == IF fileName = <<>> THEN ThisFile ELSE fileName

\* handleDelete deleting at once instead of asking
handleDelete_Immediate(fileId, fileName) ==
  /\ RowsEnabled
  /\ IF Falsy(fileId)
       THEN UNCHANGED <<isLoading, error, net, ops>>
       ELSE handleApiOperation("delete", fileId, <<>>)
  /\ UNCHANGED <<route, guardVars, blankRename, mounted, files, folders, filter,
                 deleteModal, copiedFileId, timers, clipboard, remote,
                 copiedAge>>

\* handleDelete(file.id, file.name) from a row's Delete button
handleDelete(fileId, fileName) ==
  /\ RowsEnabled
  /\ IF Falsy(fileId)
       THEN UNCHANGED <<deleteModal, ops>>
       ELSE /\ ops < MaxOps
            /\ ops' = ops + 1
            /\ deleteModal' = [isOpen |-> TRUE, fileId |-> fileId,
                               fileName |-> NameOrDefault(fileName)]
  /\ UNCHANGED <<route, guardVars, blankRename, mounted, files, folders, filter, isLoading,
                 error, copiedFileId, timers, clipboard, remote, net,
                 copiedAge>>

\* confirmDelete up to the await inside handleApiOperation (DeleteModal's
\* onConfirm; the modal offers it while it is open)
confirmDelete ==
  /\ mounted /\ deleteModal.isOpen
  /\ IF Falsy(deleteModal.fileId)
       THEN UNCHANGED <<isLoading, error, net, ops>>
       ELSE handleApiOperation("delete", deleteModal.fileId, <<>>)
  /\ UNCHANGED <<route, guardVars, blankRename, mounted, files, folders, filter, deleteModal,
                 copiedFileId, timers, clipboard, remote, copiedAge>>

\* DeleteModal's onClose
onClose ==
  /\ mounted /\ deleteModal.isOpen
  /\ ops < MaxOps
  /\ ops' = ops + 1
  /\ deleteModal' = ClosedModal
  /\ UNCHANGED <<route, guardVars, blankRename, mounted, files, folders, filter, isLoading,
                 error, copiedFileId, timers, clipboard, remote, net,
                 copiedAge>>

\* handleCopyUrl up to `await callApi({action: "getUrl", ...})`
handleCopyUrl(fileId) ==
  /\ RowsEnabled
  /\ IF Falsy(fileId)
       THEN UNCHANGED <<isLoading, error, net, ops>>
       ELSE /\ ops < MaxOps
            /\ ops' = ops + 1
            /\ isLoading' = setLoadingState(isLoading, "operations", TRUE)
            /\ error' = Null
            /\ net' = net \cup {Req(NewId, "getUrl", fileId, <<>>, Null,
                                    "getUrl", NoRes, 0)}
  /\ UNCHANGED <<route, guardVars, blankRename, mounted, files, folders, filter, deleteModal,
                 copiedFileId, timers, clipboard, remote, copiedAge>>

\* the check without the url: if (res.success)
UrlUsable_IgnoresUrl(res) == res.success

\* if (res.success && res.url)
UrlUsable(res) == res.success /\ ~Falsy(res.url)

\* res.message || "Failed to get file URL"
GetUrlMessage(res) ==
  IF Falsy(res.message) THEN "Failed to get file URL" ELSE res.message

\* handleCopyUrl after callApi settled: either on to
\* `await navigator.clipboard.writeText(res.url)`, or catch / finally
GetUrlSettled(r) ==
  /\ r \in net /\ r.kind = "getUrl" /\ r.status = "answered"
  /\ IF r.res.thrown = "none" /\ UrlUsable(r.res)
       THEN /\ net' = (net \ {r})
                        \cup {Req(r.id, "clipboardWrite", r.fileId, <<>>,
                                  r.res.url, "getUrl", r.res, 0)}
            /\ UNCHANGED <<isLoading, error>>
       ELSE /\ net' = net \ {r}
            /\ error' = IF r.res.thrown = "none" THEN GetUrlMessage(r.res)
                        ELSE ErrMessage(r.res,
                               "Failed to copy URL. Please try again.")
            /\ isLoading' = setLoadingState(isLoading, "operations", FALSE)
  /\ UNCHANGED <<route, guardVars, blankRename, mounted, files, folders, filter, deleteModal,
                 copiedFileId, timers, clipboard, remote, ops, copiedAge>>

\* handleCopyUrl after writeText settled: setCopiedFileId, setTimeout, or
\* catch; then finally
ClipboardSettled(r) ==
  /\ r \in net /\ r.kind = "clipboardWrite" /\ r.status = "answered"
  /\ IF r.res.thrown = "none"
       THEN /\ copiedFileId' = r.fileId
            /\ copiedAge' = 0
            /\ timers' = [timers EXCEPT ![CopyWindowMs] = @ + 1]
            /\ error' = error
       ELSE /\ error' = ErrMessage(r.res,
                                   "Failed to copy URL. Please try again.")
            /\ UNCHANGED <<copiedFileId, copiedAge, timers>>
  /\ isLoading' = setLoadingState(isLoading, "operations", FALSE)
  /\ net' = net \ {r}
  /\ UNCHANGED <<route, guardVars, blankRename, mounted, files, folders, filter, deleteModal,
                 clipboard, remote, ops>>

\* the callback of setTimeout(() => setCopiedFileId(null), 2000)
TimerFired ==
  /\ timers[0] > 0
  /\ timers' = [timers EXCEPT ![0] = @ - 1]
  /\ copiedFileId' = Null
  /\ copiedAge' = 0
  /\ UNCHANGED <<route, guardVars, blankRename, mounted, files, folders, filter, isLoading,
                 error, deleteModal, clipboard, remote, net, ops>>

\* time passes; a timer that is due fires before time moves on
Tick ==
  /\ timers[0] = 0
  /\ \E l \in Lefts : timers[l] > 0
  /\ timers' = [l \in Lefts |->
                  IF l + TickMs \in Lefts THEN timers[l + TickMs] ELSE 0]
  /\ copiedAge' = IF copiedFileId = Null THEN 0 ELSE copiedAge + TickMs
  /\ UNCHANGED <<route, guardVars, blankRename, mounted, files, folders, filter, isLoading,
                 error, deleteModal, copiedFileId, clipboard, remote, net,
                 ops>>

\* onClick={() => setFilter(...)}
setFilter(f) ==
  /\ mounted /\ f # filter
  /\ ops < MaxOps
  /\ ops' = ops + 1
  /\ filter' = f
  /\ UNCHANGED <<route, guardVars, blankRename, mounted, files, folders, isLoading, error,
                 deleteModal, copiedFileId, timers, clipboard, remote, net,
                 copiedAge>>

Next ==
  \/ AuthGuard
  \/ \E ok \in BOOLEAN : AuthGuardValidated(ok)
  \/ Mount
  \/ fetchFiles
  \/ \E r \in net : \E res \in Outcomes(r) : Serve(r, res)
  \/ \E r \in net : FetchFilesSettled(r)
  \/ \E r \in net : FetchFoldersSettled(r)
  \/ \E r \in net : OperationSettled(r)
  \/ \E a \in RenameArgs : handleRename(a[1], a[2])
  \/ \E a \in RowArgs : handleDelete(a[1], a[2])
  \/ confirmDelete
  \/ onClose
  \/ \E a \in RowArgs : handleCopyUrl(a[1])
  \/ \E r \in net : GetUrlSettled(r)
  \/ \E r \in net : ClipboardSettled(r)
  \/ TimerFired
  \/ Tick
  \/ \E f \in {"all", "files", "folders"} : setFilter(f)

Spec == Init /\ [][Next]_vars

\* the same program over a network that never rejects a request (the
\* service may still answer success = false)
ServeReliably(r, res) == res.thrown = "none" /\ Serve(r, res)

NextReliable ==
  \/ AuthGuard
  \/ \E ok \in BOOLEAN : AuthGuardValidated(ok)
  \/ Mount
  \/ fetchFiles
  \/ \E r \in net : \E res \in Outcomes(r) : ServeReliably(r, res)
  \/ \E r \in net : FetchFilesSettled(r)
  \/ \E r \in net : FetchFoldersSettled(r)
  \/ \E r \in net : OperationSettled(r)
  \/ \E a \in RenameArgs : handleRename(a[1], a[2])
  \/ \E a \in RowArgs : handleDelete(a[1], a[2])
  \/ confirmDelete
  \/ onClose
  \/ \E a \in RowArgs : handleCopyUrl(a[1])
  \/ \E r \in net : GetUrlSettled(r)
  \/ \E r \in net : ClipboardSettled(r)
  \/ TimerFired
  \/ Tick
  \/ \E f \in {"all", "files", "folders"} : setFilter(f)

SpecReliable == Init /\ [][NextReliable]_vars

\* ------------------------------------------------- the filter on its own
\* a mounted table showing any snapshot the service can hand out: entries
\* of every mimeType, and one without a mimeType
SnapshotEntries ==
  {<<"e1", FolderMime>>, <<"e2", PdfMime>>, <<"e3", PngMime>>,
   <<"e4", CapitalMime>>, <<"e5", FoldersMime>>, <<"e6", Null>>}
Snapshots ==
  SUBSET {[id |-> e[1], name |-> InitialName, mimeType |-> e[2]]
            : e \in SnapshotEntries}

InitFilter ==
  /\ accessToken = "tok" /\ authView = "children"
  /\ validationCalls = 1 /\ validation = "ok"
  /\ mounted = TRUE
  /\ files \in Snapshots
  /\ remote = files
  /\ folders = {file \in files : IncludesFolder(file.mimeType)}
  /\ filter = "all"
  /\ isLoading = [files |-> FALSE, folders |-> FALSE, operations |-> FALSE]
  /\ error = Null
  /\ deleteModal = ClosedModal
  /\ copiedFileId = Null
  /\ timers = [l \in Lefts |-> 0]
  /\ clipboard = Null
  /\ net = {}
  /\ ops = 0
  /\ copiedAge = 0
  /\ blankRename = FALSE
  /\ route = RouteIdle

NextFilter == \E f \in {"all", "files", "folders"} : setFilter(f)

SpecFilter == InitFilter /\ [][NextFilter]_vars

\* ------------------------------------------------- management/[id] route
\* ManagementService, request.json() and the dynamically imported callApi
\* are collaborators of the route; what each can settle with:
getManagement(photo) ==
  {Res("none", TRUE, Null, Null, <<Management(photo)>>),
   Res("none", TRUE, Null, Null, <<>>),            \* resolves with null
   Res("error", FALSE, "Management not found", Null, <<>>),
   Res("nonError", FALSE, Null, Null, <<>>)}
updateManagement(photo) ==
  {Res("none", TRUE, Null, Null, <<Management(photo)>>),
   Res("error", FALSE, "Update failed", Null, <<>>),
   Res("nonError", FALSE, Null, Null, <<>>)}
deleteManagement ==
  {Res("none", TRUE, Null, Null, <<>>),
   Res("error", FALSE, "Delete failed", Null, <<>>),
   Res("nonError", FALSE, Null, Null, <<>>)}
requestJson ==
  {Res("none", TRUE, Null, Null, <<>>),
   Res("error", FALSE, "Unexpected end of JSON input", Null, <<>>)}
callApiDelete ==
  {Res("none", TRUE, Null, Null, <<>>),
   Res("none", FALSE, "Drive API error", Null, <<>>),
   Res("error", FALSE, "Network error", Null, <<>>)}

\* the handler reaches `await fn(...)`
Await(rt, fn, fileId, token) ==
  [rt EXCEPT !.pc = fn, !.calls = Append(@, Call(fn, fileId, token))]
\* the awaited call settles with res
Settle(rt, res) ==
  [rt EXCEPT !.calls[Len(rt.calls)] = [@ EXCEPT !.settled = TRUE,
                                                !.res = res]]
\* return NextResponse.json(...)
Respond(rt, response) == [rt EXCEPT !.pc = "done", !.response = response]

\* the catch block answering 200
ErrorResponse_Status200(res, fallback) ==
  [status |-> 200, success |-> TRUE, message |-> ErrMessage(res, fallback),
   data |-> <<>>]

\* catch (error): NextResponse.json({success: false, message}, {status: 500})
ErrorResponse(res, fallback) ==
  [status |-> 500, success |-> FALSE, message |-> ErrMessage(res, fallback),
   data |-> <<>>]

\* NextResponse.json({success: true, ...})
OkResponse(message, data) ==
  [status |-> 200, success |-> TRUE, message |-> message, data |-> data]

\* reading management.photo when getManagement resolved with null
TypeErrorOnNull ==
  Res("error", FALSE, "Cannot read properties of null (reading 'photo')",
      Null, <<>>)

GET ==
  /\ route.pc = "idle"
  /\ route' = Await([route EXCEPT !.method = "GET"], "getManagement",
                    Undefined, Undefined)
  /\ UNCHANGED consoleVars

GETSettled(res) ==
  /\ route.method = "GET" /\ route.pc = "getManagement"
  /\ res \in getManagement(route.photo)
  /\ route' =
       Respond(Settle(route, res),
               IF res.thrown = "none" THEN OkResponse(Null, res.data)
               ELSE ErrorResponse(res, "Failed to fetch management"))
  /\ UNCHANGED consoleVars

PUT ==
  /\ route.pc = "idle"
  /\ route' = Await([route EXCEPT !.method = "PUT"], "request.json",
                    Undefined, Undefined)
  /\ UNCHANGED consoleVars

\* PUT after `await request.json()`
PUTParsed(res) ==
  /\ route.method = "PUT" /\ route.pc = "request.json"
  /\ res \in requestJson
  /\ route' =
       IF res.thrown = "none"
         THEN Await(Settle(route, res), "updateManagement", Undefined,
                    Undefined)
         ELSE Respond(Settle(route, res),
                      ErrorResponse(res, "Failed to update management"))
  /\ UNCHANGED consoleVars

PUTSettled(res) ==
  /\ route.method = "PUT" /\ route.pc = "updateManagement"
  /\ res \in updateManagement(route.photo)
  /\ route' =
       Respond(Settle(route, res),
               IF res.thrown = "none"
                 THEN OkResponse("Management updated successfully", res.data)
                 ELSE ErrorResponse(res, "Failed to update management"))
  /\ UNCHANGED consoleVars

DELETE ==
  /\ route.pc = "idle"
  /\ route' = Await([route EXCEPT !.method = "DELETE"], "getManagement",
                    Undefined, Undefined)
  /\ UNCHANGED consoleVars

\* DELETE after `await ManagementService.getManagement(params.id)`, up to
\* the next await: callApi when the photo is a Drive file and the request
\* carries a token, deleteManagement otherwise
DELETELookedUp(res) ==
  /\ route.method = "DELETE" /\ route.pc = "getManagement"
  /\ res \in getManagement(route.photo)
  /\ route' =
       IF res.thrown # "none"
         THEN Respond(Settle(route, res),
                      ErrorResponse(res, "Failed to delete management"))
       ELSE IF res.data = <<>>
         THEN Respond(Settle(route, res),
                      ErrorResponse(TypeErrorOnNull,
                                    "Failed to delete management"))
       ELSE
         LET photo == res.data[1].photo
             fileId == fileIdMatch(photo)
             token == ReplaceBearer(route.authorization)
         IN IF IsDrivePhoto(photo) /\ fileId # Undefined /\ ~Absent(token)
              THEN Await(Settle(route, res), "callApi", fileId, token)
              ELSE Await(Settle(route, res), "deleteManagement", Undefined,
                         Undefined)
  /\ UNCHANGED consoleVars

\* the inner catch rethrowing instead of warning
DELETEPhotoSettled_Propagates(res) ==
  /\ route.method = "DELETE" /\ route.pc = "callApi"
  /\ res \in callApiDelete
  /\ route' =
       IF res.thrown = "none"
         THEN Await(Settle(route, res), "deleteManagement", Undefined,
                    Undefined)
         ELSE Respond(Settle(route, res),
                      ErrorResponse(res, "Failed to delete management"))
  /\ UNCHANGED consoleVars

\* DELETE after `await callApi({action: "delete", ...})`: the envelope is
\* dropped, a rejection is caught and logged with console.warn; then on to
\* `await ManagementService.deleteManagement(params.id)`
DELETEPhotoSettled(res) ==
  /\ route.method = "DELETE" /\ route.pc = "callApi"
  /\ res \in callApiDelete
  /\ route' = Await([Settle(route, res)
                       EXCEPT !.warned = (res.thrown # "none")],
                    "deleteManagement", Undefined, Undefined)
  /\ UNCHANGED consoleVars

DELETESettled(res) ==
  /\ route.method = "DELETE" /\ route.pc = "deleteManagement"
  /\ res \in deleteManagement
  /\ route' =
       Respond(Settle(route, res),
               IF res.thrown = "none"
                 THEN OkResponse("Management deleted successfully", <<>>)
                 ELSE ErrorResponse(res, "Failed to delete management"))
  /\ UNCHANGED consoleVars

\* one request to the route, for a record with any of the photos and a
\* request with any of the authorization headers
InitManagement ==
  /\ InitConsole
  /\ accessToken = "tok"
  /\ \E photo \in Photos, authorization \in Authorizations :
       route = [RouteIdle EXCEPT !.photo = photo,
                                 !.authorization = authorization]

NextManagement ==
  \/ GET
  \/ \E res \in getManagement(route.photo) : GETSettled(res)
  \/ PUT
  \/ \E res \in requestJson : PUTParsed(res)
  \/ \E res \in updateManagement(route.photo) : PUTSettled(res)
  \/ DELETE
  \/ \E res \in getManagement(route.photo) : DELETELookedUp(res)
  \/ \E res \in callApiDelete : DELETEPhotoSettled(res)
  \/ \E res \in deleteManagement : DELETESettled(res)

SpecManagement == InitManagement /\ [][NextManagement]_vars

\* ------------------------------------------------------------ properties
\* r's answer is handed to the handler awaiting it in this step
Delivered(r) == r \in net /\ r.status = "answered" /\ r \notin net'
\* ... and that handler invocation returns in this step
Returned(r) == Delivered(r) /\ \A q \in net' : q.id # r.id
\* q is sent in this step
Issued(q) == q \in net' /\ q.status = "sent" /\ q \notin net

MutatingKinds == {"rename", "delete"}

\* C1 (as amended): a rename or confirmed delete whose callApi call
\* succeeded is followed by exactly one fetchFiles call: the call's answer
\* is followed at once by the first and only re-fetch, the operation
\* returns when that re-fetch settles, and if the re-fetch succeeded the
\* list shows what it returned.
C1_RefetchedExactlyOnce ==
  [][\A r \in net :
       /\ (Delivered(r) /\ r.kind \in MutatingKinds /\ Succeeded(r.res))
            => /\ \E q \in net' : /\ Issued(q) /\ q.kind = "files"
                                  /\ q.id = r.id /\ q.fetches = 1
               /\ Cardinality({q \in net' : Issued(q)}) = 1
       /\ (Delivered(r) /\ r.kind = "files" /\ r.parent \in MutatingKinds
             /\ Succeeded(r.callRes))
            => /\ r.fetches = 1
               /\ Returned(r)
               /\ {q \in net' : Issued(q)} = {}
               /\ (r.res.thrown = "none" => files' = r.res.data)]_vars

\* C1 (as stated): ... and no stale list is left displayed: when the
\* operation returns the list equals the service's files.
C1_NoStaleListLeft ==
  [][\A r \in net :
       (Delivered(r) /\ r.kind = "files" /\ r.parent \in MutatingKinds
          /\ Succeeded(r.callRes))
         => (r.fetches = 1 /\ files' = remote')]_vars

C1_Witness ==
  \E r \in net : /\ r.kind = "files" /\ r.parent \in MutatingKinds
                 /\ Succeeded(r.callRes) /\ r.fetches = 1
                 /\ r.status = "answered" /\ r.res.thrown = "none"
                 /\ r.res.data # files

\* C2: once a mutation has been applied and every request has returned,
\* the displayed list equals the service's files.
C2_EventuallyConsistent ==
  (mounted /\ net = {} /\ remote # InitialRemote) => files = remote

\* C3: a handleRename call without a fileId, or with a null, empty or
\* all-blank name, sends nothing and leaves the loading flags and the error
\* slot as they were.
C3_BlankRenameIsNoOp ==
  [][(~blankRename /\ blankRename')
       => (net' = net /\ isLoading' = isLoading /\ error' = error)]_vars

C3_Witness ==
  blankRename /\ mounted /\ net = {} /\ ops = 0 /\ ~isLoading.operations

\* C4: opening the delete confirmation sends nothing and carries the id
\* and name of a displayed row; a delete call for file F is sent only in a
\* step taken while the confirmation is open for F.
C4_DeleteOnlyAfterConfirm ==
  [][/\ (deleteModal'.isOpen /\ deleteModal' # deleteModal)
          => /\ net' = net /\ remote' = remote /\ isLoading' = isLoading
             /\ \E file \in filteredFiles :
                  /\ deleteModal'.fileId = file.id
                  /\ deleteModal'.fileName = file.name
     /\ \A q \in net' :
          (Issued(q) /\ q.kind = "delete")
            => (deleteModal.isOpen /\ deleteModal.fileId = q.fileId)]_vars

C4_Witness ==
  \E r \in net : /\ r.kind = "delete" /\ r.status = "sent"
                 /\ deleteModal.isOpen /\ deleteModal.fileId = r.fileId

\* C5: when a confirmed delete returns, however it went, and when the
\* confirmation is cancelled, the confirmation state is
\* {isOpen: false, fileId: null, fileName: ""}; a closed confirmation state
\* never holds anything else.
C5_ConfirmationClosed ==
  [][LET closed == [isOpen |-> FALSE, fileId |-> Null, fileName |-> <<>>]
     IN /\ \A r \in net :
             (Returned(r) /\ r.parent = "delete") => deleteModal' = closed
        /\ ~deleteModal'.isOpen => deleteModal' = closed]_vars

C5_Witness ==
  \E r \in net : /\ r.kind = "delete" /\ r.status = "answered"
                 /\ r.res.thrown = "error" /\ deleteModal.isOpen

\* C6: the "copied" display is cleared by a timer only after it has been
\* shown for the whole 2000 ms window.
C6_CopiedShownForWholeWindow ==
  [][(copiedFileId # Null /\ copiedFileId' = Null)
       => copiedAge = CopyWindowMs]_vars

\* C7: when getUrl's answer is a rejection, success = false or has no url,
\* handleCopyUrl returns with an error message set, no clipboard write
\* started, the clipboard and copiedFileId as they were, and the operations
\* flag false.
C7_CopyFailureSurfaced ==
  [][\A r \in net :
       (/\ Delivered(r) /\ r.kind = "getUrl"
        /\ (r.res.thrown # "none" \/ ~r.res.success
              \/ r.res.url \in {Null, ""}))
         => /\ error' \notin {Null, ""}
            /\ net' = net \ {r}
            /\ clipboard' = clipboard
            /\ copiedFileId' = copiedFileId
            /\ isLoading'.operations = FALSE]_vars

C7_Witness ==
  /\ error = "Failed to get file URL" /\ clipboard = Null
  /\ copiedFileId = Null /\ ~isLoading.operations /\ net = {}

\* C8: mounting sends one files and one folders request; when either
\* settles, failed or not, it resets its own flag, stores its own result if
\* it has one, and leaves the other's flag, result and request alone.
C8_MountFetchesIndependent ==
  [][/\ (mounted' /\ ~mounted)
          => /\ Cardinality({q \in net' : q.kind = "files"}) = 1
             /\ Cardinality({q \in net' : q.kind = "folders"}) = 1
             /\ isLoading'.files /\ isLoading'.folders
     /\ \A r \in net :
          /\ (Delivered(r) /\ r.kind = "folders")
               => /\ net' = net \ {r}
                  /\ ~isLoading'.folders
                  /\ isLoading'.files = isLoading.files
                  /\ files' = files
                  /\ folders' = IF r.res.thrown = "none" THEN r.res.data
                                ELSE folders
          /\ (Delivered(r) /\ r.kind = "files" /\ r.parent = "none")
               => /\ net' = net \ {r}
                  /\ ~isLoading'.files
                  /\ isLoading'.folders = isLoading.folders
                  /\ folders' = folders
                  /\ files' = IF r.res.thrown = "none" THEN r.res.data
                              ELSE files]_vars

C8_Witness ==
  /\ ops = 0 /\ net = {} /\ error = "Network error"
  /\ folders = {f \in remote : f.mimeType = FolderMime} /\ folders # {}
  /\ ~isLoading.folders /\ ~isLoading.files

\* the handler invocation returning with r's answer has failed
Failed(r) ==
  \/ r.res.thrown # "none"
  \/ r.kind = "files" /\ r.parent \in MutatingKinds /\ ~r.callRes.success
  \/ r.kind = "getUrl"

\* C9: an operation that fails returns with the error slot set, and the
\* error slot is only ever set by the operation failing in that step.
C9_FailureSetsError ==
  [][/\ \A r \in net : (Returned(r) /\ Failed(r)) => error' # Null
     /\ (error' # Null /\ error' # error)
          => \E r \in net : Delivered(r) /\ Failed(r)]_vars

\* C10: without an access token (absent or empty) AuthGuard makes no
\* validation call and shows the connect prompt; its children never mount.
C10_NoTokenNoValidation ==
  accessToken \in {Null, ""}
    => /\ validationCalls = 0
       /\ authView \in {"pending", "connect"}
       /\ ~mounted

C10_Witness ==
  accessToken = "" /\ authView = "connect" /\ validationCalls = 0

\* C11: with a non-empty token AuthGuard makes exactly one validation call;
\* if that call threw, the error view is shown and the children never
\* mount; the children are shown only with a token present and that single
\* call completed without error.
C11_ChildrenOnlyAfterValidation ==
  /\ (accessToken \notin {Null, ""} /\ authView # "pending")
       => validationCalls = 1
  /\ validationCalls \in {0, 1}
  /\ validation = "threw" => (authView = "error" /\ ~mounted)
  /\ (authView = "children" \/ mounted)
       => /\ accessToken \notin {Null, ""}
          /\ validationCalls = 1
          /\ validation = "ok"

C11_Witness ==
  /\ accessToken = "tok" /\ validation = "threw" /\ authView = "error"
  /\ validationCalls = 1

\* the positions in the handler's call sequence of its calls to fn
CallsOf(fn) == {i \in 1..Len(route.calls) : route.calls[i].fn = fn}
\* the DELETE handler's record lookup returned a record
LookedUp ==
  /\ route.method = "DELETE" /\ Len(route.calls) >= 1
  /\ route.calls[1].settled /\ route.calls[1].res.thrown = "none"
  /\ route.calls[1].res.data # <<>>
\* ... or threw, or returned no record
LookupFailed ==
  /\ route.method = "DELETE" /\ Len(route.calls) >= 1
  /\ route.calls[1].settled
  /\ (route.calls[1].res.thrown # "none" \/ route.calls[1].res.data = <<>>)

\* C12: a DELETE for a record whose photo is
\* https://drive.google.com/file/d/<ID>/view makes exactly one callApi
\* delete call, with fileId = <ID>, and makes it before the deleteManagement
\* call, whatever the request.
C12_PhotoDeletedBeforeRecord ==
  \A id \in DriveIds :
    (LookedUp /\ route.photo = DriveUrl(id))
      => /\ Cardinality(CallsOf("callApi")) = 1
         /\ \A i \in CallsOf("callApi") :
              /\ route.calls[i].fileId = id
              /\ \A j \in CallsOf("deleteManagement") : i < j

\* the photo delete call settled and did not succeed
PhotoDeleteFailed ==
  \E i \in CallsOf("callApi") :
    route.calls[i].settled /\ ~Succeeded(route.calls[i].res)

\* C13: after a failed photo delete the handler has not answered but has
\* gone on to the deleteManagement call, and it answers success = true,
\* status 200, exactly if that call succeeds.
C13_PhotoFailureSwallowed ==
  PhotoDeleteFailed
    => /\ LookedUp
       /\ \A i \in CallsOf("callApi") :
            CallsOf("deleteManagement") = {i + 1}
       /\ LET last == route.calls[Len(route.calls)]
          IN /\ last.fn = "deleteManagement"
             /\ ~last.settled
                  => (route.pc # "done" /\ route.response.status = 0)
             /\ last.settled
                  => /\ route.pc = "done"
                     /\ route.response.success = (last.res.thrown = "none")
                     /\ route.response.success
                          => route.response.status = 200

C13_Witness ==
  /\ \E i \in CallsOf("callApi") :
       route.calls[i].settled /\ route.calls[i].res.thrown = "error"
  /\ route.warned /\ route.pc = "done" /\ route.response.success

ServiceFns ==
  {"getManagement", "updateManagement", "deleteManagement", "request.json"}
Primary(method) ==
  CASE method = "GET" -> "getManagement"
    [] method = "PUT" -> "updateManagement"
    [] method = "DELETE" -> "deleteManagement"
    [] OTHER -> "none"

\* C14: a rejected getManagement, updateManagement, deleteManagement or
\* request.json() ends the handler with status 500 and
\* {success: false, message}; success = true is answered, with status 200,
\* only after the handler's primary call returned; a DELETE whose lookup
\* failed answers 500 having called neither callApi nor deleteManagement.
C14_FailuresAnswer500 ==
  /\ \A i \in 1..Len(route.calls) :
       (/\ route.calls[i].fn \in ServiceFns /\ route.calls[i].settled
        /\ route.calls[i].res.thrown # "none")
         => /\ i = Len(route.calls) /\ route.pc = "done"
            /\ route.response.status = 500
            /\ route.response.success = FALSE
            /\ route.response.message \notin {Null, ""}
  /\ route.pc = "done"
       => /\ route.response.status \in {200, 500}
          /\ route.response.success = (route.response.status = 200)
  /\ route.response.success
       => \E i \in CallsOf(Primary(route.method)) :
            route.calls[i].settled /\ route.calls[i].res.thrown = "none"
  /\ LookupFailed
       => /\ route.pc = "done" /\ route.response.status = 500
          /\ route.response.success = FALSE
          /\ CallsOf("callApi") = {} /\ CallsOf("deleteManagement") = {}

C14_Witness ==
  /\ LookupFailed /\ route.calls[1].res.thrown = "nonError"
  /\ route.photo \in {DriveUrl(id) : id \in DriveIds}
  /\ route.authorization = <<"Bearer ", "t", "k">>
  /\ route.pc = "done"
  /\ route.response.message = "Failed to delete management"

\* the entry's mimeType is missing, or "folder" starts at none of its
\* positions
LacksFolder(file) ==
  \/ file.mimeType = Null
  \/ LET c == Chars(file.mimeType)
     IN \A i \in 1..Len(c) :
          ~(/\ i + 5 <= Len(c)
            /\ c[i] = "f" /\ c[i + 1] = "o" /\ c[i + 2] = "l"
            /\ c[i + 3] = "d" /\ c[i + 4] = "e" /\ c[i + 5] = "r")
\* what the table shows of the snapshot under filter f
View(f) == {file \in files : FilterKeeps(file, f)}
FilterIsView ==
  /\ filteredFiles = View(filter)
  /\ (\A file \in files : LacksFolder(file))
       => (View("files") = files /\ View("folders") = {})
  /\ View("files") \cap View("folders") = {}
  /\ View("files") \cup View("folders") = View("all")
  /\ View("all") = files

\* C15: when no entry of the snapshot has "folder" in its mimeType (entries
\* without a mimeType included) the "files" filter shows the whole snapshot
\* and the "folders" filter nothing; for every snapshot the two are
\* disjoint and together make up "all"; switching the filter sends nothing
\* and leaves the snapshot as it was.
C15_FilterIsPureView ==
  [][/\ FilterIsView /\ FilterIsView'
     /\ filter' # filter
          => /\ net' = net /\ files' = files /\ remote' = remote
             /\ isLoading' = isLoading]_vars

C15_Witness ==
  /\ filter = "files" /\ ops = 1
  /\ \E file \in files : file.mimeType = Null
  /\ \E file \in files : file.mimeType = CapitalMime
  /\ \A file \in files : LacksFolder(file)
  /\ filteredFiles = files

\* a request of the category is in flight: sent, or answered and not yet
\* handed to its handler
FilesInFlight == \E r \in net : r.kind = "files"
FoldersInFlight == \E r \in net : r.kind = "folders"
OperationInFlight == \E r \in net : r.parent \in {"rename", "delete", "getUrl"}

\* C16: each loading flag is true exactly while a request of its category
\* is in flight: files for fetchFiles calls (mount, Refresh, re-fetch),
\* operations for rename, confirmed delete and copy-URL with their
\* follow-up calls, folders for fetchFolders.
C16_FlagsTrackRequests ==
  /\ isLoading.files = FilesInFlight
  /\ isLoading.operations = OperationInFlight
  /\ isLoading.folders = FoldersInFlight

====
